---- MODULE Spec2Model ----
(***************************************************************************)
(* Model of internal/cmd/update.go: the `gt update` command (runUpdate,    *)
(* getVersionInfo, determineInstallLocation, copyFile).                    *)
(*                                                                         *)
(* Every invocation of the command is an operating-system process p with   *)
(* its own flags, locals and program position; the processes share the    *)
(* file system (install path, its ".new" sibling, the temp directory) and  *)
(* the wall clock.  Spec runs one invocation, SpecConc runs two.           *)
(***************************************************************************)
EXTENDS Integers, Sequences, FiniteSets, TLC

\* Bounds of the model.
MaxClock == 2      \* the wall clock (time.Now().Unix()) takes the values 1..MaxClock
MaxLine == 3       \* longest line the user types at the confirmation prompt

Procs == {1, 2}

\* Characters a typed line is made of, as one-character strings.
Alphabet == {"n", "N", "o", "y", " "}
Lines == UNION {[1..n -> Alphabet] : n \in 0..MaxLine}

\* Where determineInstallLocation can point: the running binary or ~/.local/bin/gt.
InstallPaths == {"exe", "default"}
GOOSValues == {"darwin", "linux"}

VARIABLES
    run,        \* run[p]: flags, locals and program position of invocation p
    now,        \* time.Now().Unix()
    GOOS,       \* runtime.GOOS of the build
    fsInstall,  \* fsInstall[path]: content of the file at install path `path`
    fsNew,      \* fsNew[path]: content of the sibling file path + ".new"
    fsTmp,      \* fsTmp[t]: content of os.TempDir()/gt-build-<t>
    pre         \* the file system before any invocation ran (history)

vars == <<run, now, GOOS, fsInstall, fsNew, fsTmp, pre>>

----------------------------------------------------------------------------
(* Pure helpers *)

\* fmt.Scanln(&response): skip leading blanks, store the first blank-delimited
\* word; anything after it on the line is an error that leaves the word stored.
RECURSIVE SkipSpaces(_)
SkipSpaces(s) ==
    IF s = <<>> THEN s
    ELSE IF Head(s) = " " THEN SkipSpaces(Tail(s)) ELSE s

RECURSIVE TakeWord(_)
TakeWord(s) ==
    IF s = <<>> \/ Head(s) = " " THEN <<>>
    ELSE <<Head(s)>> \o TakeWord(Tail(s))

Scanln(line) == TakeWord(SkipSpaces(line))

\* strings.ToLower
LowerChar(c) == IF c = "N" THEN "n" ELSE IF c = "O" THEN "o" ELSE c
ToLower(s) == [i \in DOMAIN s |-> LowerChar(s[i])]

\* strings.TrimSpace
RECURSIVE TrimRight(_)
TrimRight(s) ==
    IF s = <<>> THEN s
    ELSE IF s[Len(s)] = " " THEN TrimRight(SubSeq(s, 1, Len(s) - 1)) ELSE s
TrimSpace(s) == TrimRight(SkipSpaces(s))

\* response == "n" || response == "no"
IsNo(response) == response = <<"n">> \/ response = <<"n", "o">>

\* determineInstallLocation: exe is what os.Executable (after EvalSymlinks)
\* gives: "err", a path containing "/tmp", one containing "go-build", or a
\* normal path; homeOk is whether os.UserHomeDir succeeds.  "" is the error.
determineInstallLocation(exe, homeOk) ==
    IF exe = "normal" THEN "exe"
    ELSE IF homeOk THEN "default" ELSE ""
ExeKinds == {"err", "tmp", "gobuild", "normal"}

\* The bytes `go build` writes for invocation p (they embed its version info).
Built(p) == IF p = 1 THEN "bin1" ELSE "bin2"
\* The bytes after `codesign -s - -f` rewrote the file with a signature.
Signed(c) == IF c = "bin1" THEN "sig1" ELSE IF c = "bin2" THEN "sig2" ELSE c

\* defer os.Remove(tmpBinary): t = 0 means the defer is not registered yet.
RemoveTmpMissing(tmp, t) == tmp
DeferredRemove(tmp, t) == IF t = 0 THEN tmp ELSE [tmp EXCEPT ![t] = "absent"]

\* `return err` / `return nil` of runUpdate for the record r of an invocation.
Return(r, res) ==
    [r EXCEPT !.pc = "done", !.result = res,
              !.trace = IF r.tmpBinary = 0 THEN r.trace
                        ELSE Append(r.trace, "remove_tmp")]

\* A step that executed stage s and goes on to pc next.
Goto(r, s, next) == [r EXCEPT !.pc = next, !.trace = Append(r.trace, s)]
\* A stage s that failed.
Fail(r, s) == [r EXCEPT !.trace = Append(r.trace, s), !.failed = r.failed \cup {s}]

----------------------------------------------------------------------------
(* Initial state *)

InitRun ==
    [pc |-> "idle", updateForce |-> FALSE, updateDryRun |-> FALSE,
     goPresent |-> FALSE, result |-> "none", trace |-> <<>>, failed |-> {},
     info |-> "none", installPath |-> "", lineNo |-> FALSE, responseNo |-> FALSE,
     prompted |-> FALSE, version |-> "", tmpBinary |-> 0, data |-> "absent"]

\* An invocation with its command line (force, dryRun) and its environment
\* (whether `go` is on its PATH).
Invocations ==
    {[InitRun EXCEPT !.updateForce = f, !.updateDryRun = d, !.goPresent = g] :
        f \in BOOLEAN, d \in BOOLEAN, g \in BOOLEAN}

InitFiles ==
    /\ now = 1
    /\ GOOS \in GOOSValues
    /\ fsInstall \in [InstallPaths -> {"absent", "old"}]
    /\ fsNew \in [InstallPaths -> {"absent", "junk"}]
    /\ fsTmp = [t \in 1..MaxClock |-> "absent"]
    /\ pre = [install |-> fsInstall, new |-> fsNew, tmp |-> fsTmp]

\* One invocation: the second process never starts.
Init ==
    /\ run \in {f \in [Procs -> Invocations] : f[2] = InitRun}
    /\ InitFiles

----------------------------------------------------------------------------
(* runUpdate, one action per step; p is the invocation *)

\* cobra has parsed --force / --dry-run into updateForce / updateDryRun and
\* calls RunE.
Start(p) ==
    /\ run[p].pc = "idle"
    /\ run' = [run EXCEPT ![p].pc = "locate"]
    /\ UNCHANGED <<now, GOOS, fsInstall, fsNew, fsTmp, pre>>

\* version.GetRepoRoot()
Locate(p) ==
    /\ run[p].pc = "locate"
    /\ \E ok \in BOOLEAN :
         run' = [run EXCEPT ![p] =
                   IF ok THEN Goto(@, "locate", "stale")
                   ELSE Return(Fail(@, "locate"), "RepoNotFound")]
    /\ UNCHANGED <<now, GOOS, fsInstall, fsNew, fsTmp, pre>>

\* version.CheckStaleBinary and the report on it.  A mutant that returns on a
\* fresh binary even under --force precedes it.
CheckStale_IgnoreForce(p) ==
    /\ run[p].pc = "stale"
    /\ \E info \in {"error", "fresh", "stale", "behind"} :
         run' = [run EXCEPT ![p] =
                   LET r == [@ EXCEPT !.info = info] IN
                   IF info = "fresh"
                   THEN Return(Goto(Goto(r, "stalecheck", "stale"), "uptodate", "stale"), "ok")
                   ELSE Goto(Goto(r, "stalecheck", "stale"), "warn", "location")]
    /\ UNCHANGED <<now, GOOS, fsInstall, fsNew, fsTmp, pre>>

CheckStale(p) ==
    /\ run[p].pc = "stale"
    /\ \E info \in {"error", "fresh", "stale", "behind"} :
         run' = [run EXCEPT ![p] =
                   LET r == [@ EXCEPT !.info = info] IN
                   CASE info = "fresh" ->
                          LET u == Goto(Goto(r, "stalecheck", "stale"), "uptodate", "location")
                          IN  IF ~r.updateForce THEN Return(u, "ok") ELSE u
                     [] info = "stale" ->
                          Goto(Goto(r, "stalecheck", "stale"), "warn_stale", "location")
                     [] info = "behind" ->
                          Goto(Goto(r, "stalecheck", "stale"), "warn_behind", "location")
                     [] OTHER ->
                          [Fail(r, "stalecheck") EXCEPT !.pc = "location"]]
    /\ UNCHANGED <<now, GOOS, fsInstall, fsNew, fsTmp, pre>>

\* installPath, err := determineInstallLocation()
Location(p) ==
    /\ run[p].pc = "location"
    /\ \E exe \in ExeKinds, homeOk \in BOOLEAN :
         LET path == determineInstallLocation(exe, homeOk) IN
         run' = [run EXCEPT ![p] =
                   IF path = "" THEN Return(Fail(@, "location"), "InstallLocation")
                   ELSE [Goto(@, "location", "lookpath") EXCEPT !.installPath = path]]
    /\ UNCHANGED <<now, GOOS, fsInstall, fsNew, fsTmp, pre>>

\* exec.LookPath("go").  A mutant that goes on without the toolchain precedes it.
LookPath_Ignored(p) ==
    /\ run[p].pc = "lookpath"
    /\ run' = [run EXCEPT ![p] =
                 IF @.goPresent THEN Goto(@, "lookpath", "dryrun")
                 ELSE [Fail(@, "lookpath") EXCEPT !.pc = "dryrun"]]
    /\ UNCHANGED <<now, GOOS, fsInstall, fsNew, fsTmp, pre>>

LookPath(p) ==
    /\ run[p].pc = "lookpath"
    /\ run' = [run EXCEPT ![p] =
                 IF @.goPresent THEN Goto(@, "lookpath", "dryrun")
                 ELSE Return(Fail(@, "lookpath"), "ToolchainMissing")]
    /\ UNCHANGED <<now, GOOS, fsInstall, fsNew, fsTmp, pre>>

\* if updateDryRun { ... return nil }.  A mutant that only prints the plan
\* and goes on precedes it.
DryRun_NoReturn(p) ==
    /\ run[p].pc = "dryrun"
    /\ run' = [run EXCEPT ![p] =
                 IF @.updateDryRun THEN Goto(@, "dryreport", "confirm")
                 ELSE [@ EXCEPT !.pc = "confirm"]]
    /\ UNCHANGED <<now, GOOS, fsInstall, fsNew, fsTmp, pre>>

DryRun(p) ==
    /\ run[p].pc = "dryrun"
    /\ run' = [run EXCEPT ![p] =
                 IF @.updateDryRun THEN Return(Goto(@, "dryreport", "dryrun"), "ok")
                 ELSE [@ EXCEPT !.pc = "confirm"]]
    /\ UNCHANGED <<now, GOOS, fsInstall, fsNew, fsTmp, pre>>

\* The confirmation prompt.  line is what the user types; lineNo records
\* whether the whole line, trimmed and lower-cased, is "n"/"no", responseNo
\* whether the code's response variable is.  A mutant that aborts on no
\* answer at all precedes it.
Confirm_NeverAbort(p) ==
    /\ run[p].pc = "confirm"
    /\ \/ /\ run[p].updateForce
          /\ run' = [run EXCEPT ![p].pc = "describe"]
       \/ /\ ~run[p].updateForce
          /\ \E line \in Lines :
               LET response == TrimSpace(ToLower(Scanln(line)))
                   r == [Goto(run[p], "prompt", "describe") EXCEPT
                            !.prompted = TRUE,
                            !.lineNo = IsNo(TrimSpace(ToLower(line))),
                            !.responseNo = IsNo(response)]
               IN  run' = [run EXCEPT ![p] = r]
    /\ UNCHANGED <<now, GOOS, fsInstall, fsNew, fsTmp, pre>>

Confirm(p) ==
    /\ run[p].pc = "confirm"
    /\ \/ /\ run[p].updateForce
          /\ run' = [run EXCEPT ![p].pc = "describe"]
       \/ /\ ~run[p].updateForce
          /\ \E line \in Lines :
               LET response == TrimSpace(ToLower(Scanln(line)))
                   r == [Goto(run[p], "prompt", "describe") EXCEPT
                            !.prompted = TRUE,
                            !.lineNo = IsNo(TrimSpace(ToLower(line))),
                            !.responseNo = IsNo(response)]
               IN  run' = [run EXCEPT ![p] =
                             IF IsNo(response) THEN Return(r, "ok") ELSE r]
    /\ UNCHANGED <<now, GOOS, fsInstall, fsNew, fsTmp, pre>>

\* getVersionInfo: git describe; failure falls back to Version = "dev".
Describe(p) ==
    /\ run[p].pc = "describe"
    /\ \E ok \in BOOLEAN :
         run' = [run EXCEPT ![p] =
                   IF ok THEN [Goto(@, "describe", "revparse") EXCEPT !.version = "tag"]
                   ELSE [Fail(@, "describe") EXCEPT !.pc = "revparse", !.version = "dev"]]
    /\ UNCHANGED <<now, GOOS, fsInstall, fsNew, fsTmp, pre>>

\* getVersionInfo: git rev-parse HEAD; failure is fatal.  A mutant that
\* builds without a commit hash precedes it.
RevParse_NotFatal(p) ==
    /\ run[p].pc = "revparse"
    /\ \E ok \in BOOLEAN :
         run' = [run EXCEPT ![p] =
                   IF ok THEN Goto(@, "revparse", "generate")
                   ELSE [Fail(@, "revparse") EXCEPT !.pc = "generate"]]
    /\ UNCHANGED <<now, GOOS, fsInstall, fsNew, fsTmp, pre>>

RevParse(p) ==
    /\ run[p].pc = "revparse"
    /\ \E ok \in BOOLEAN :
         run' = [run EXCEPT ![p] =
                   IF ok THEN Goto(@, "revparse", "generate")
                   ELSE Return(Fail(@, "revparse"), "CommitLookupFailed")]
    /\ UNCHANGED <<now, GOOS, fsInstall, fsNew, fsTmp, pre>>

\* go generate ./...
Generate(p) ==
    /\ run[p].pc = "generate"
    /\ \E ok \in BOOLEAN :
         run' = [run EXCEPT ![p] =
                   IF ok THEN Goto(@, "generate", "tmpname")
                   ELSE Return(Fail(@, "generate"), "GenerateFailed")]
    /\ UNCHANGED <<now, GOOS, fsInstall, fsNew, fsTmp, pre>>

\* tmpBinary := .../gt-build-<time.Now().Unix()>; defer os.Remove(tmpBinary)
TmpName(p) ==
    /\ run[p].pc = "tmpname"
    /\ run' = [run EXCEPT ![p] = [@ EXCEPT !.pc = "build", !.tmpBinary = now]]
    /\ UNCHANGED <<now, GOOS, fsInstall, fsNew, fsTmp, pre>>

\* go build -o tmpBinary: it can write the artifact, exit 0 without one, or
\* fail leaving nothing or a partial file.
Build(p) ==
    /\ run[p].pc = "build"
    /\ \E out \in {"ok", "okmissing", "fail", "failpartial"} :
         LET t == run[p].tmpBinary
             written == CASE out = "ok" -> [fsTmp EXCEPT ![t] = Built(p)]
                          [] out = "failpartial" -> [fsTmp EXCEPT ![t] = "partial"]
                          [] OTHER -> fsTmp
         IN  IF out \in {"ok", "okmissing"}
             THEN /\ run' = [run EXCEPT ![p] = Goto(@, "build", "verify")]
                  /\ fsTmp' = written
             ELSE /\ run' = [run EXCEPT ![p] = Return(Fail(@, "build"), "BuildFailed")]
                  /\ fsTmp' = DeferredRemove(written, t)
    /\ UNCHANGED <<now, GOOS, fsInstall, fsNew, pre>>

\* os.Stat(tmpBinary)
Verify(p) ==
    /\ run[p].pc = "verify"
    /\ LET t == run[p].tmpBinary IN
       IF fsTmp[t] # "absent"
       THEN /\ run' = [run EXCEPT ![p] = Goto(@, "stat", "mkdir")]
            /\ fsTmp' = fsTmp
       ELSE /\ run' = [run EXCEPT ![p] = Return(Fail(@, "stat"), "BuildArtifactMissing")]
            /\ fsTmp' = DeferredRemove(fsTmp, t)
    /\ UNCHANGED <<now, GOOS, fsInstall, fsNew, pre>>

\* os.MkdirAll(filepath.Dir(installPath), 0755)
Mkdir(p) ==
    /\ run[p].pc = "mkdir"
    /\ \E ok \in BOOLEAN :
         IF ok
         THEN /\ run' = [run EXCEPT ![p] = Goto(@, "mkdir", "copy_read")]
              /\ fsTmp' = fsTmp
         ELSE /\ run' = [run EXCEPT ![p] = Return(Fail(@, "mkdir"), "MkdirFailed")]
              /\ fsTmp' = DeferredRemove(fsTmp, run[p].tmpBinary)
    /\ UNCHANGED <<now, GOOS, fsInstall, fsNew, pre>>

----------------------------------------------------------------------------
(* copyFile(tmpBinary, installPath), inlined in runUpdate *)

\* data, err := os.ReadFile(src)
CopyRead(p) ==
    /\ run[p].pc = "copy_read"
    /\ LET t == run[p].tmpBinary IN
       \E ok \in BOOLEAN :
         IF ok /\ fsTmp[t] # "absent"
         THEN /\ run' = [run EXCEPT ![p] =
                           [Goto(@, "read", "copy_open") EXCEPT !.data = fsTmp[t]]]
              /\ fsTmp' = fsTmp
         ELSE /\ run' = [run EXCEPT ![p] = Return(Fail(@, "read"), "ReadFailed")]
              /\ fsTmp' = DeferredRemove(fsTmp, t)
    /\ UNCHANGED <<now, GOOS, fsInstall, fsNew, pre>>

\* os.WriteFile(tmpDst, data, 0755), first half: open with O_CREATE|O_TRUNC.
\* A mutant that opens the destination itself precedes it.
CopyOpen_InPlace(p) ==
    /\ run[p].pc = "copy_open"
    /\ LET dst == run[p].installPath IN
       \E ok \in BOOLEAN :
         IF ok
         THEN /\ run' = [run EXCEPT ![p] = Goto(@, "open", "copy_write")]
              /\ fsInstall' = [fsInstall EXCEPT ![dst] = "partial"]
              /\ fsNew' = [fsNew EXCEPT ![dst] = "partial"]
              /\ fsTmp' = fsTmp
         ELSE /\ run' = [run EXCEPT ![p] = Return(Fail(@, "open"), "WriteFailed")]
              /\ fsInstall' = fsInstall
              /\ fsNew' = fsNew
              /\ fsTmp' = DeferredRemove(fsTmp, run[p].tmpBinary)
    /\ UNCHANGED <<now, GOOS, pre>>

CopyOpen(p) ==
    /\ run[p].pc = "copy_open"
    /\ LET dst == run[p].installPath IN
       \E ok \in BOOLEAN :
         IF ok
         THEN /\ run' = [run EXCEPT ![p] = Goto(@, "open", "copy_write")]
              /\ fsNew' = [fsNew EXCEPT ![dst] = "partial"]
              /\ fsTmp' = fsTmp
         ELSE /\ run' = [run EXCEPT ![p] = Return(Fail(@, "open"), "WriteFailed")]
              /\ fsNew' = fsNew
              /\ fsTmp' = DeferredRemove(fsTmp, run[p].tmpBinary)
    /\ UNCHANGED <<now, GOOS, fsInstall, pre>>

\* os.WriteFile, second half: write the bytes; a failure leaves the ".new"
\* file as far as it got, and copyFile returns without removing it.
CopyWrite(p) ==
    /\ run[p].pc = "copy_write"
    /\ LET dst == run[p].installPath IN
       \E ok \in BOOLEAN :
         IF ok
         THEN /\ run' = [run EXCEPT ![p] = Goto(@, "write", "copy_rename")]
              /\ fsNew' = [fsNew EXCEPT ![dst] = run[p].data]
              /\ fsTmp' = fsTmp
         ELSE /\ run' = [run EXCEPT ![p] = Return(Fail(@, "write"), "WriteFailed")]
              /\ fsNew' = fsNew
              /\ fsTmp' = DeferredRemove(fsTmp, run[p].tmpBinary)
    /\ UNCHANGED <<now, GOOS, fsInstall, pre>>

\* os.Rename(tmpDst, dst); on failure os.Remove(tmpDst).  A mutant without
\* the clean-up precedes it.
CopyRename_NoCleanup(p) ==
    /\ run[p].pc = "copy_rename"
    /\ LET dst == run[p].installPath IN
       \E ok \in BOOLEAN :
         IF ok /\ fsNew[dst] # "absent"
         THEN /\ run' = [run EXCEPT ![p] = Goto(@, "rename", "codesign")]
              /\ fsInstall' = [fsInstall EXCEPT ![dst] = fsNew[dst]]
              /\ fsNew' = [fsNew EXCEPT ![dst] = "absent"]
              /\ fsTmp' = fsTmp
         ELSE /\ run' = [run EXCEPT ![p] = Return(Fail(@, "rename"), "RenameFailed")]
              /\ fsInstall' = fsInstall
              /\ fsNew' = fsNew
              /\ fsTmp' = DeferredRemove(fsTmp, run[p].tmpBinary)
    /\ UNCHANGED <<now, GOOS, pre>>

CopyRename(p) ==
    /\ run[p].pc = "copy_rename"
    /\ LET dst == run[p].installPath IN
       \E ok \in BOOLEAN :
         IF ok /\ fsNew[dst] # "absent"
         THEN /\ run' = [run EXCEPT ![p] = Goto(@, "rename", "codesign")]
              /\ fsInstall' = [fsInstall EXCEPT ![dst] = fsNew[dst]]
              /\ fsNew' = [fsNew EXCEPT ![dst] = "absent"]
              /\ fsTmp' = fsTmp
         ELSE /\ run' = [run EXCEPT ![p] =
                           Return(Goto(Fail(@, "rename"), "remove_new", "copy_rename"),
                                  "RenameFailed")]
              /\ fsInstall' = fsInstall
              /\ fsNew' = [fsNew EXCEPT ![dst] = "absent"]
              /\ fsTmp' = DeferredRemove(fsTmp, run[p].tmpBinary)
    /\ UNCHANGED <<now, GOOS, pre>>

----------------------------------------------------------------------------
(* the end of runUpdate *)

\* if runtime.GOOS == "darwin" { _ = signCmd.Run() }; return nil.  codesign
\* rewrites the installed file with an ad-hoc signature when it succeeds.
\* A mutant that treats a signing failure as fatal and rolls the install
\* path back to nothing precedes it.
Codesign_Fatal(p) ==
    /\ run[p].pc = "codesign"
    /\ LET dst == run[p].installPath IN
       \E ok \in BOOLEAN :
         IF GOOS = "darwin" /\ ok /\ fsInstall[dst] # "absent"
         THEN /\ run' = [run EXCEPT ![p] = Return(Goto(@, "codesign", "codesign"), "ok")]
              /\ fsInstall' = [fsInstall EXCEPT ![dst] = Signed(@)]
         ELSE /\ run' = [run EXCEPT ![p] = Return(Fail(@, "codesign"), "CodesignFailed")]
              /\ fsInstall' = [fsInstall EXCEPT ![dst] = "absent"]
    /\ fsTmp' = DeferredRemove(fsTmp, run[p].tmpBinary)
    /\ UNCHANGED <<now, GOOS, fsNew, pre>>

Codesign(p) ==
    /\ run[p].pc = "codesign"
    /\ LET dst == run[p].installPath IN
       IF GOOS = "darwin"
       THEN \E ok \in BOOLEAN :
              IF ok /\ fsInstall[dst] # "absent"
              THEN /\ run' = [run EXCEPT ![p] =
                                Return(Goto(@, "codesign", "codesign"), "ok")]
                   /\ fsInstall' = [fsInstall EXCEPT ![dst] = Signed(@)]
              ELSE /\ run' = [run EXCEPT ![p] = Return(Fail(@, "codesign"), "ok")]
                   /\ fsInstall' = fsInstall
       ELSE /\ run' = [run EXCEPT ![p] = Return(@, "ok")]
            /\ fsInstall' = fsInstall
    /\ fsTmp' = DeferredRemove(fsTmp, run[p].tmpBinary)
    /\ UNCHANGED <<now, GOOS, fsNew, pre>>

\* The wall clock advances by a second.
Tick ==
    /\ now < MaxClock
    /\ now' = now + 1
    /\ UNCHANGED <<run, GOOS, fsInstall, fsNew, fsTmp, pre>>

----------------------------------------------------------------------------
(* Specifications *)

Step(p) ==
    \/ Start(p) \/ Locate(p) \/ CheckStale(p) \/ Location(p) \/ LookPath(p)
    \/ DryRun(p) \/ Confirm(p) \/ Describe(p) \/ RevParse(p) \/ Generate(p)
    \/ TmpName(p) \/ Build(p) \/ Verify(p) \/ Mkdir(p)
    \/ CopyRead(p) \/ CopyOpen(p) \/ CopyWrite(p) \/ CopyRename(p) \/ Codesign(p)

\* One invocation of the command.
Solo == {1}
Next == Tick \/ \E p \in Solo : Step(p)
Spec == Init /\ [][Next]_vars

\* Two invocations at the same time, both `gt update --force` with the
\* toolchain installed, on Linux, from a settled file system.
Forced == [InitRun EXCEPT !.updateForce = TRUE, !.goPresent = TRUE]
InitConc ==
    /\ run = [p \in Procs |-> Forced]
    /\ InitFiles
    /\ GOOS = "linux"
    /\ fsNew = [d \in InstallPaths |-> "absent"]
    /\ fsInstall = [d \in InstallPaths |-> "old"]
NextConc == Tick \/ \E p \in Procs : Step(p)
SpecConc == InitConc /\ [][NextConc]_vars

----------------------------------------------------------------------------
(* Vocabulary of the properties *)

InTrace(r, s) == \E i \in DOMAIN r.trace : r.trace[i] = s
Stages(r) == {r.trace[i] : i \in DOMAIN r.trace}

\* Subprocesses runUpdate starts, and steps that write to the file system.
Subprocesses == {"describe", "revparse", "generate", "build", "codesign"}
Mutations == {"generate", "build", "mkdir", "open", "write", "rename",
              "remove_new", "codesign", "remove_tmp"}
BuildSteps == Subprocesses \cup Mutations \cup {"stat", "read"}

FsUnchanged == fsInstall = pre.install /\ fsNew = pre.new /\ fsTmp = pre.tmp

\* The pipeline in source order, and the error each fatal stage returns.
PipelineOrder == <<"describe", "revparse", "generate", "build", "stat", "mkdir",
                   "read", "open", "write", "rename">>
InPipeline(s) == \E i \in DOMAIN PipelineOrder : PipelineOrder[i] = s
Pipeline(r) == SelectSeq(r.trace, InPipeline)
FatalStages == {"revparse", "generate", "build", "stat", "mkdir",
                "read", "open", "write", "rename"}
ErrorOf(s) ==
    CASE s = "revparse" -> "CommitLookupFailed"
      [] s = "generate" -> "GenerateFailed"
      [] s = "build" -> "BuildFailed"
      [] s = "stat" -> "BuildArtifactMissing"
      [] s = "mkdir" -> "MkdirFailed"
      [] s = "read" -> "ReadFailed"
      [] s = "open" -> "WriteFailed"
      [] s = "write" -> "WriteFailed"
      [] s = "rename" -> "RenameFailed"

----------------------------------------------------------------------------
(* C1 *)

\* C1 as stated: every finished run with dryRun = true touched no file, ran
\* no generate/build/install/codesign step, showed no prompt, and returned
\* success.
C1_AsStated ==
    \A p \in Procs :
        (run[p].updateDryRun /\ run[p].pc = "done") =>
            /\ FsUnchanged
            /\ Stages(run[p]) \cap (BuildSteps \cup {"prompt"}) = {}
            /\ run[p].result = "ok"

\* C1 amended: a run with dryRun = true never touches a file, runs no
\* generate/build/install/codesign step and shows no prompt; it returns
\* success unless locating the repository, resolving the install location or
\* finding the toolchain failed, and then it returns that error.
C1_DryRunFrame ==
    \A p \in Procs :
        run[p].updateDryRun =>
            /\ FsUnchanged
            /\ Stages(run[p]) \cap (BuildSteps \cup {"prompt"}) = {}
            /\ run[p].pc = "done" =>
                 /\ run[p].result \in {"ok", "RepoNotFound", "InstallLocation",
                                       "ToolchainMissing"}
                 /\ (run[p].result = "ok") <=> (run[p].failed \subseteq {"stalecheck"})

C1_Witness ==
    \E p \in Procs :
        /\ run[p].updateDryRun /\ run[p].updateForce
        /\ run[p].pc = "done" /\ run[p].result = "ok"
        /\ InTrace(run[p], "dryreport")

----------------------------------------------------------------------------
(* C2 *)

\* What "the run was not stopped at the prompt" means.
Proceeded(r) == r.pc = "describe" \/ InTrace(r, "describe")
Declined(r) ==
    /\ r.pc = "done" /\ r.result = "ok"
    /\ Stages(r) \cap BuildSteps = {}

\* C2 as stated: with force = false and dryRun = false, a typed answer that
\* is "n"/"no" after trimming and lower-casing ends the run with success, no
\* subprocess and no file change; any other answer lets the run proceed; with
\* force = true no prompt is shown.
C2_AsStated ==
    \A p \in Procs :
        /\ run[p].prompted =>
             /\ ~run[p].updateForce /\ ~run[p].updateDryRun
             /\ run[p].lineNo => (Declined(run[p]) /\ FsUnchanged)
             /\ ~run[p].lineNo => Proceeded(run[p])
        /\ run[p].updateForce => ~InTrace(run[p], "prompt")

\* C2 amended: the answer that counts is the first blank-delimited word of
\* the typed line (what Scanln stores): if it is "n"/"no" in any case the run
\* ends with success, no subprocess and no file change, and this covers every
\* line that is "n"/"no" after trimming and lower-casing; if it is anything
\* else, or empty, the run proceeds; with force = true no prompt is shown.
C2_Decline ==
    \A p \in Procs :
        /\ run[p].prompted =>
             /\ ~run[p].updateForce /\ ~run[p].updateDryRun
             /\ run[p].lineNo => run[p].responseNo
             /\ run[p].responseNo => (Declined(run[p]) /\ FsUnchanged)
             /\ ~run[p].responseNo => Proceeded(run[p])
        /\ run[p].updateForce => ~InTrace(run[p], "prompt")

C2_Witness ==
    \E p \in Procs :
        /\ run[p].prompted /\ run[p].responseNo /\ ~run[p].lineNo
        /\ run[p].pc = "done" /\ run[p].result = "ok"

----------------------------------------------------------------------------
(* C3 *)

\* C3: a staleness report without error that says "not stale" ends a run with
\* force = false in success, before the install location is determined, the
\* prompt is shown or any generate/build/install step runs; with force = true
\* the run goes on to the install location.
C3_UpToDate ==
    \A p \in Procs :
        run[p].info = "fresh" =>
            /\ ~run[p].updateForce =>
                 /\ run[p].pc = "done" /\ run[p].result = "ok"
                 /\ run[p].installPath = ""
                 /\ Stages(run[p]) \cap (BuildSteps \cup {"location", "prompt"}) = {}
                 /\ FsUnchanged
            /\ run[p].updateForce =>
                 (run[p].pc = "location" \/ InTrace(run[p], "location"))

C3_Witness ==
    \E p \in Procs :
        /\ run[p].info = "fresh" /\ ~run[p].updateForce
        /\ run[p].pc = "done" /\ InTrace(run[p], "uptodate")

----------------------------------------------------------------------------
(* C4 *)

\* C4: the stages a run executed are an initial part of the pipeline, in its
\* order; a fatal stage that failed is the last one executed and the run has
\* returned that stage's error; a failed commit lookup leaves generate and
\* build unexecuted; the rename happens only after generate, build and the
\* artifact check succeeded.
C4_PipelineOrder ==
    \A p \in Procs :
        LET r == run[p]
            s == Pipeline(r)
        IN  /\ s = SubSeq(PipelineOrder, 1, Len(s))
            /\ \A f \in r.failed \cap FatalStages :
                 /\ r.pc = "done" /\ r.result = ErrorOf(f)
                 /\ s[Len(s)] = f
            /\ "revparse" \in r.failed => Stages(r) \cap {"generate", "build"} = {}
            /\ InTrace(r, "rename") =>
                 /\ {"generate", "build", "stat"} \subseteq Stages(r)
                 /\ r.failed \cap {"revparse", "generate", "build", "stat"} = {}

C4_Witness ==
    \E p \in Procs :
        /\ run[p].pc = "done" /\ run[p].result = "CommitLookupFailed"
        /\ "describe" \in run[p].failed

----------------------------------------------------------------------------
(* C5 *)

\* C5: when the rename of copyFile failed, the file dest + ".new" does not
\* exist after the return and the destination has its previous content.
C5_RenameCleanup ==
    \A p \in Procs :
        run[p].result = "RenameFailed" =>
            /\ fsNew[run[p].installPath] = "absent"
            /\ fsInstall[run[p].installPath] = pre.install[run[p].installPath]

C5_Witness ==
    \E p \in Procs :
        /\ run[p].result = "RenameFailed"
        /\ pre.install[run[p].installPath] = "old"
        /\ pre.new[run[p].installPath] = "junk"

----------------------------------------------------------------------------
(* C6 *)

InCopyFile(r) ==
    \/ r.pc \in {"copy_read", "copy_open", "copy_write", "copy_rename", "codesign"}
    \/ r.pc = "done" /\ r.result \in {"ReadFailed", "WriteFailed", "RenameFailed"}

\* C6: in every state of copyFile, partial and failed writes included, the
\* destination holds its previous content (or is absent as before) or the
\* complete bytes of the source; only the ".new" sibling is ever partial.
C6_AtomicInstall ==
    \A p \in Procs :
        InCopyFile(run[p]) =>
            LET dst == run[p].installPath IN
            /\ fsInstall[dst] \in {pre.install[dst], Built(p)}
            /\ fsInstall[dst] = Built(p) <=> InTrace(run[p], "rename") /\ run[p].pc = "codesign"
            /\ \A d \in InstallPaths \ {dst} : fsInstall[d] = pre.install[d]

C6_Witness ==
    \E p \in Procs :
        /\ run[p].pc = "done" /\ run[p].result = "WriteFailed"
        /\ fsNew[run[p].installPath] = "partial"
        /\ fsInstall[run[p].installPath] = "old"

----------------------------------------------------------------------------
(* C7 *)

\* C7: after a run that chose its temporary build path has returned, on
\* whatever path, that file does not exist.
C7_TmpRemoved ==
    \A p \in Procs :
        (run[p].pc = "done" /\ run[p].tmpBinary # 0) =>
            fsTmp[run[p].tmpBinary] = "absent"

C7_Witness ==
    \E p \in Procs :
        /\ run[p].pc = "done" /\ run[p].result = "ok"
        /\ run[p].tmpBinary # 0 /\ InTrace(run[p], "rename")

----------------------------------------------------------------------------
(* C8 *)

Running(r) == r.pc \notin {"idle", "done"}

\* C8 as stated: two invocations running at the same time never have the
\* same temporary build path.
C8_UniqueTmp ==
    \A p \in Procs, q \in Procs :
        (p # q /\ Running(run[p]) /\ Running(run[q])
              /\ run[p].tmpBinary # 0 /\ run[q].tmpBinary # 0) =>
            run[p].tmpBinary # run[q].tmpBinary

----------------------------------------------------------------------------
(* C9 *)

\* C9 as stated: a finished run without the toolchain returned the
\* toolchain-missing error, before the staleness check, the install-location
\* resolution, the dry-run report, the prompt, any subprocess or mutation.
C9_AsStated ==
    \A p \in Procs :
        (run[p].pc = "done" /\ ~run[p].goPresent) =>
            /\ run[p].result = "ToolchainMissing"
            /\ Stages(run[p]) \cap
                 (BuildSteps \cup {"stalecheck", "location", "dryreport", "prompt"}) = {}

\* C9 amended: the toolchain is looked up after the repository was located,
\* the staleness checked and the install location resolved, and before the
\* dry-run report, the prompt and every subprocess or file mutation: a run
\* that reaches the lookup without the toolchain returns the
\* toolchain-missing error there, and a run that ended earlier returned that
\* earlier outcome.
C9_ToolchainCheck ==
    \A p \in Procs :
        LET r == run[p]
            later == BuildSteps \cup {"dryreport", "prompt"}
        IN  /\ (InTrace(r, "lookpath") /\ ~r.goPresent) =>
                 /\ r.pc = "done" /\ r.result = "ToolchainMissing"
                 /\ Stages(r) \cap later = {}
                 /\ FsUnchanged
            /\ InTrace(r, "lookpath") =>
                 {"locate", "location"} \subseteq Stages(r)
            /\ Stages(r) \cap later # {} => (InTrace(r, "lookpath") /\ r.goPresent)
            /\ (r.pc = "done" /\ ~r.goPresent) =>
                 r.result \in {"ToolchainMissing", "RepoNotFound", "InstallLocation", "ok"}
            /\ (r.pc = "done" /\ ~r.goPresent /\ r.result = "ok") =>
                 (r.info = "fresh" /\ ~r.updateForce)

C9_Witness ==
    \E p \in Procs :
        /\ run[p].pc = "done" /\ run[p].result = "ToolchainMissing"
        /\ run[p].updateDryRun /\ InTrace(run[p], "warn_behind")

----------------------------------------------------------------------------
(* C10 *)

\* C10 as stated: a run that returned an error left the install path as it
\* was; a run that returned success after the install step left exactly the
\* bytes of the built artifact at the install path.
C10_AsStated ==
    \A p \in Procs :
        run[p].pc = "done" =>
            /\ run[p].result # "ok" => fsInstall = pre.install
            /\ (run[p].result = "ok" /\ InTrace(run[p], "rename")) =>
                 fsInstall[run[p].installPath] = Built(p)

\* C10 amended: a run that returned an error left the install path as it
\* was; a run that returned success after the install step left the built
\* artifact at the install path: its exact bytes, or on darwin, when codesign
\* succeeded, those bytes as re-signed in place by codesign.
C10_InstallResult ==
    \A p \in Procs :
        run[p].pc = "done" =>
            /\ run[p].result # "ok" => fsInstall = pre.install
            /\ (run[p].result = "ok" /\ InTrace(run[p], "rename")) =>
                 fsInstall[run[p].installPath] =
                    IF GOOS = "darwin" /\ "codesign" \notin run[p].failed
                    THEN Signed(Built(p)) ELSE Built(p)
            /\ (run[p].result = "ok" /\ ~InTrace(run[p], "rename")) =>
                 fsInstall = pre.install

C10_Witness ==
    \E p \in Procs :
        /\ run[p].pc = "done" /\ run[p].result = "ok"
        /\ GOOS = "darwin" /\ "codesign" \in run[p].failed
        /\ fsInstall[run[p].installPath] = Built(p)
        /\ pre.install[run[p].installPath] = "old"

====
